---- MODULE Spec2Model ----
(***************************************************************************)
(* Faceted search engine of the recipe listing page                        *)
(* (static/js/recipes.js).  The file holds two immediately-invoked         *)
(* function expressions; both run on the page, so every listener, debounce *)
(* timer and AbortController exists once per engine.                       *)
(*                                                                         *)
(* Strings are sequences of tokens (one token per character, with the      *)
(* parameter names and the two paths as single tokens).                    *)
(***************************************************************************)
EXTENDS Integers, Sequences, FiniteSets, TLC

\* ------------------------------------------------------------------ bounds
\* Number of user events (input, submit, clear-search) in a behaviour.
MaxEvents == 2

\* Number of requests a behaviour issues, the callbacks of the pending timers
\* included: a user event is taken only when every engine can still dispatch
\* for it.
MaxRequests == 4

\* ------------------------------------------------------- program constants
\* recipes.js holds two engines: lines 1-228 and lines 230-355.
NumEngines == 2
Engines == 1..NumEngines

\* debounce(requestSearch, 250)
Delay == 250

\* Granularity of the model clock: the delay elapses in one tick.
TickStep == Delay

\* window.location.pathname of the listing page.
Pathname == "/recipes"

\* Values the form's data-search-url can have ("" when it is absent).
SearchUrls == {"", "/recipes/search"}

\* The value of each extra-tag checkbox of the panel, in document order.
BoxValues == << <<"g">>, <<"n">> >>

\* The extra-tag checkboxes, by position.
Boxes == 1..Len(BoxValues)

\* The data-filter-tag of each quick filter button.
QuickTags == {<<"v">>, <<"d">>}

\* Values the panel's data-extra-tag-values can have: every checkbox value,
\* one of them only, and "" (also when the attribute is absent).
ExtraTagAttrs == {<<"g", ",", " ", "n">>, <<"g", ",">>, << >>}

\* Keys of the keydown events.
Keys == {"Escape", "Enter"}

\* Values the user can leave in the text field after an input event.
InputTexts == {<<"s", " ">>, <<"s", "p">>}

\* ------------------------------------------------------------ pure helpers
Max(a, b) == IF a > b THEN a ELSE b

Contains(seq, x) == \E i \in 1..Len(seq) : seq[i] = x

Range(seq) == {seq[i] : i \in 1..Len(seq)}

\* String.prototype.trim: leading and trailing white space removed.
RECURSIVE TrimLeft(_)
TrimLeft(s) ==
    IF s # << >> /\ Head(s) = " " THEN TrimLeft(Tail(s)) ELSE s

RECURSIVE TrimRight(_)
TrimRight(s) ==
    IF s # << >> /\ s[Len(s)] = " "
    THEN TrimRight(SubSeq(s, 1, Len(s) - 1))
    ELSE s

Trim(s) == TrimRight(TrimLeft(s))

\* application/x-www-form-urlencoded byte serializer, on the model alphabet:
\* a space becomes "+", and the characters "+", "&" and "=" are
\* percent-encoded.
EncodeChar(c) ==
    CASE c = " " -> "+"
      [] c = "+" -> "%2B"
      [] c = "&" -> "%26"
      [] c = "=" -> "%3D"
      [] OTHER   -> c

DecodeChar(c) ==
    CASE c = "+"   -> " "
      [] c = "%2B" -> "+"
      [] c = "%26" -> "&"
      [] c = "%3D" -> "="
      [] OTHER     -> c

Encode(s) == [i \in 1..Len(s) |-> EncodeChar(s[i])]

Decode(s) == [i \in 1..Len(s) |-> DecodeChar(s[i])]

\* URLSearchParams.prototype.toString: name=value pairs joined by "&".
RECURSIVE ParamsToString(_)
ParamsToString(params) ==
    IF params = << >> THEN << >>
    ELSE LET p == Head(params)
             first == <<p[1], "=">> \o Encode(p[2])
         IN  IF Tail(params) = << >> THEN first
             ELSE first \o <<"&">> \o ParamsToString(Tail(params))

\* Position of the first occurrence of token x in s, 0 when there is none.
IndexOf(s, x) ==
    IF Contains(s, x)
    THEN CHOOSE i \in 1..Len(s) : s[i] = x /\ \A j \in 1..(i - 1) : s[j] # x
    ELSE 0

\* Pieces of s between the separators sep.
RECURSIVE SplitOn(_, _)
SplitOn(s, sep) ==
    LET i == IndexOf(s, sep)
    IN  IF i = 0 THEN <<s>>
        ELSE <<SubSeq(s, 1, i - 1)>> \o SplitOn(SubSeq(s, i + 1, Len(s)), sep)

\* One name=value piece of a query string, parsed and decoded.
ParsePair(piece) ==
    LET i == IndexOf(piece, "=")
    IN  IF i = 0 THEN <<piece[1], << >> >>
        ELSE <<piece[1], Decode(SubSeq(piece, i + 1, Len(piece)))>>

\* new URLSearchParams(string): a leading "?" is dropped, empty pieces are
\* skipped, every other piece gives one name/value pair.
ParseQuery(str) ==
    LET body == IF str # << >> /\ Head(str) = "?" THEN Tail(str) ELSE str
        pieces == SelectSeq(SplitOn(body, "&"), LAMBDA p : p # << >>)
    IN  [i \in 1..Len(pieces) |-> ParsePair(pieces[i])]

\* URLSearchParams.prototype.getAll(name)
GetAll(params, name) ==
    LET hits == SelectSeq(params, LAMBDA p : p[1] = name)
    IN  [i \in 1..Len(hits) |-> hits[i][2]]

\* URLSearchParams.prototype.delete(name)
ParamsDelete(params, name) == SelectSeq(params, LAMBDA p : p[1] # name)

\* URLSearchParams.prototype.set(name, value): the first pair of that name
\* takes the value and the others are removed; appended when there is none.
ParamsSet(params, name, value) ==
    LET i == IF \E j \in 1..Len(params) : params[j][1] = name
             THEN CHOOSE j \in 1..Len(params) :
                      /\ params[j][1] = name
                      /\ \A h \in 1..(j - 1) : params[h][1] # name
             ELSE 0
    IN  IF i = 0 THEN Append(params, <<name, value>>)
        ELSE SubSeq(params, 1, i - 1) \o << <<name, value>> >>
             \o ParamsDelete(SubSeq(params, i + 1, Len(params)), name)

\* new Set(values): insertion order kept, repeated values dropped.
RECURSIVE NewSet(_)
NewSet(values) ==
    IF values = << >> THEN << >>
    ELSE LET rest == NewSet(SubSeq(values, 1, Len(values) - 1))
             last == values[Len(values)]
         IN  IF Contains(rest, last) THEN rest ELSE Append(rest, last)

\* window.location.search of an address: from the "?" on, "" without one.
LocationSearch(loc) ==
    LET i == IndexOf(loc, "?")
    IN  IF i = 0 \/ i = Len(loc) THEN << >> ELSE SubSeq(loc, i, Len(loc))

\* window.location.pathname of an address.
LocationPathname(loc) == loc[1]

\* The query string of a URL, without the "?".
QueryString(url) ==
    LET i == IndexOf(url, "?")
    IN  IF i = 0 THEN << >> ELSE SubSeq(url, i + 1, Len(url))


\* The list of the panel's data-extra-tag-values: split at the commas, each
\* piece trimmed, the empty pieces dropped.
ParseExtraTagValues(attr) ==
    LET pieces == SplitOn(attr, ",")
        trimmed == [i \in 1..Len(pieces) |-> Trim(pieces[i])]
    IN  SelectSeq(trimmed, LAMBDA v : v # << >>)

\* Set.prototype.delete and Set.prototype.add on an insertion-ordered Set.
SetDelete(set, value) == SelectSeq(set, LAMBDA x : x # value)

SetAdd(set, value) == IF Contains(set, value) THEN set ELSE Append(set, value)

\* A number as a decimal string.
Digit(d) ==
    CASE d = 0 -> "0" [] d = 1 -> "1" [] d = 2 -> "2" [] d = 3 -> "3"
      [] d = 4 -> "4" [] d = 5 -> "5" [] d = 6 -> "6" [] d = 7 -> "7"
      [] d = 8 -> "8" [] d = 9 -> "9"

RECURSIVE Decimal(_)
Decimal(n) ==
    IF n < 10 THEN <<Digit(n)>>
    ELSE Decimal(n \div 10) \o <<Digit(n % 10)>>

\* ------------------------------------------------------------------- state
VARIABLES
    searchUrl,         \* searchForm.dataset.searchUrl || ""
    text,              \* searchInput.value
    location,          \* window.location: pathname, then "?" and the query
    historyLen,        \* number of entries of the session history
    navCount,          \* number of full navigations (page loads) so far
    results,           \* resultsContainer.innerHTML
    timers,            \* pending setTimeout callbacks, in creation order
    timeoutId,         \* timeoutId of each engine's debounce closure
    reqs,              \* every fetch issued, in dispatch order
    logged,            \* request the last step wrote a console.error for, or 0
    searchController,  \* each engine's searchController: index into reqs
    events,            \* the user events so far, by kind
    sinceSched,        \* time since the last event that called debouncedSearch
    textAtSched,       \* searchInput.value at that event
    lastGood,          \* the address the last rendered search wrote
    extraTagValues,    \* the list in extraDropdown.dataset.extraTagValues
    open,              \* extraDropdown has the class is-open
    checked,           \* the extra-tag checkboxes that are checked
    badge,             \* extraCountTarget.textContent
    visited,           \* the address of every page load so far, in order
    visitedBy,         \* for each of them the number of the event that
                       \* assigned it to window.location.href, 0 for the first
    pending,           \* the navigation under way: the address assigned to
                       \* window.location.href and not loaded yet
    row                \* an ingredient row of the recipe form (recipe_form.js)

\* The state of the extra-tags dropdown.
dropdownVars == <<extraTagValues, open, checked, badge>>

vars == <<searchUrl, text, location, historyLen, navCount, results, timers,
          timeoutId, reqs, logged, searchController, events, sinceSched,
          textAtSched, lastGood, extraTagValues, open, checked, badge,
          visited, visitedBy, pending, row>>

\* The ingredient row of recipe_form.js as attachAutocomplete finds it: the
\* name field empty, the unit select at its first option, no suggestions, the
\* list empty and without an inline display (the script writes none before
\* the first hideList, applySuggestion or renderList), no fetch issued, no
\* user event yet.
NoRow ==
    [value |-> << >>, unit |-> "g", currentSuggestions |-> << >>,
     list |-> << >>, display |-> "", calls |-> << >>, steps |-> 0]

\* No assignment to window.location.href in this task.
None == << >>

\* No navigation is under way.
NoPending == [href |-> None, by |-> 0]

\* The part of the state the handlers of recipes.js read and write.
Page ==
    [searchUrl |-> searchUrl, text |-> text, location |-> location,
     historyLen |-> historyLen, navCount |-> navCount, timers |-> timers,
     timeoutId |-> timeoutId, reqs |-> reqs,
     searchController |-> searchController]

\* The page after a handler has run.
Becomes(s) ==
    /\ searchUrl' = s.searchUrl
    /\ text' = s.text
    /\ location' = s.location
    /\ historyLen' = s.historyLen
    /\ navCount' = s.navCount
    /\ timers' = s.timers
    /\ timeoutId' = s.timeoutId
    /\ reqs' = s.reqs
    /\ searchController' = s.searchController

\* ---------------------------------------------------- functions of an engine
\* buildTarget with the q entry left out of the address.
buildTarget_withoutQ(s, params) ==
    LET query == ParamsToString(ParamsDelete(params, "q"))
        basePath == LocationPathname(s.location)
    IN  IF query # << >> THEN <<basePath, "?">> \o query ELSE <<basePath>>

\* buildTarget(params)
buildTarget(s, params) ==
    LET query == ParamsToString(params)
        basePath == LocationPathname(s.location)
    IN  IF query # << >> THEN <<basePath, "?">> \o query ELSE <<basePath>>

\* updateHistory with an assignment to window.location.href in the place of
\* replaceState.
updateHistory_navigates(s, params) ==
    [s EXCEPT !.location = buildTarget(s, params), !.historyLen = @ + 1,
              !.navCount = @ + 1]

\* updateHistory with history.pushState in the place of replaceState.
updateHistory_push(s, params) ==
    [s EXCEPT !.location = buildTarget(s, params), !.historyLen = @ + 1]

\* updateHistory(params): history.replaceState, no entry is added.
updateHistory(s, params) ==
    [s EXCEPT !.location = buildTarget(s, params)]

\* getCurrentTags(): the tags of the address, as a Set.
getCurrentTags(s) ==
    NewSet(GetAll(ParseQuery(LocationSearch(s.location)), "tags"))

\* buildSearchParams that leaves the tags out.
buildSearchParams_noTags(s) == << >>

\* buildSearchParams(): one tags entry per current tag.
buildSearchParams(s) ==
    LET tags == getCurrentTags(s)
    IN  [i \in 1..Len(tags) |-> <<"tags", tags[i]>>]

\* clearTimeout(id) for engine e: the timer of that id, when still pending,
\* is removed.  A timer is identified by its engine and the event that set it.
clearTimeout(s, e, id) ==
    [s EXCEPT !.timers =
        SelectSeq(s.timers, LAMBDA t : ~(t.eng = e /\ t.ev = id))]

\* debouncedSearch with the clearTimeout left out.
debouncedSearch_noClear(e, s, ev) ==
    [s EXCEPT !.timers = Append(s.timers,
                                [eng |-> e, ev |-> ev, left |-> Delay]),
              !.timeoutId[e] = ev]

\* The function debounce(requestSearch, 250) returns, called at event ev.
debouncedSearch(e, s, ev) ==
    LET s1 == clearTimeout(s, e, s.timeoutId[e])
    IN  [s1 EXCEPT !.timers = Append(s1.timers,
                                  [eng |-> e, ev |-> ev, left |-> Delay]),
                   !.timeoutId[e] = ev]

\* abortController with the abort left out.
abortController_skipped(s, e) == s

\* searchController?.abort(): the signal of the engine's controller, when
\* there is one, is aborted, whatever has become of its request; a fetch or a
\* body read that is still pending rejects with AbortError, which the catch
\* swallows.  A body that has been read to its end is not affected: its
\* request is aborted and still to resolve.  (What a request records of the
\* container at its dispatch is dropped when its call ends.)
abortController(s, e) ==
    LET c == s.searchController[e]
        ends == s.reqs[c].status \in {"inflight", "body"}
    IN  IF c = 0 THEN s
        ELSE [s EXCEPT !.reqs[c].aborted = TRUE,
                       !.reqs[c].status = IF ends THEN "settled" ELSE @,
                       !.reqs[c].shown = IF ends THEN None ELSE @]

\* requestSearch(), up to its first await.  cause and ev record the event
\* the call comes from, shown what the results container holds when the
\* request is dispatched.
requestSearch(e, s, cause, ev) ==
    IF s.searchUrl = "" THEN s
    ELSE
        LET params0 == buildSearchParams(s)
            query == Trim(s.text)
            params == IF query # << >> THEN ParamsSet(params0, "q", query)
                      ELSE params0
            s1 == updateHistory(s, params)
            requestUrl == IF ParamsToString(params) # << >>
                          THEN <<s.searchUrl, "?">> \o ParamsToString(params)
                          ELSE <<s.searchUrl>>
            s2 == abortController(s1, e)
            request == [eng |-> e, url |-> requestUrl, addr |-> s1.location,
                        status |-> "inflight", aborted |-> FALSE,
                        cause |-> cause, ev |-> ev, shown |-> results]
        IN  [s2 EXCEPT !.reqs = Append(s2.reqs, request),
                       !.searchController[e] = Len(s2.reqs) + 1]

\* submitListener going through the debounced function.
submitListener_debounced(e, s, ev) ==
    debouncedSearch(e, [s EXCEPT !.text = Trim(s.text)], ev)

\* The submit listener of engine e.
submitListener(e, s, ev) ==
    requestSearch(e, [s EXCEPT !.text = Trim(s.text)], "submit", ev)

\* The click listener of the clear-search button of engine e.
clearSearchListener(e, s, ev) ==
    LET params == buildSearchParams(s)
        s1 == updateHistory(s, params)
        s2 == [s1 EXCEPT !.text = << >>]
    IN  debouncedSearch(e, s2, ev)

\* inputListener that schedules nothing.
inputListener_idle(e, s, ev) == s

\* The input listener of engine e.
inputListener(e, s, ev) == debouncedSearch(e, s, ev)

\* An event dispatched to the page: the listeners of engines 1..n run one
\* after the other, in the order the engines registered them.
RECURSIVE DispatchInput(_, _, _)
DispatchInput(n, s, ev) ==
    IF n = 0 THEN s ELSE inputListener(n, DispatchInput(n - 1, s, ev), ev)

RECURSIVE DispatchSubmit(_, _, _)
DispatchSubmit(n, s, ev) ==
    IF n = 0 THEN s ELSE submitListener(n, DispatchSubmit(n - 1, s, ev), ev)

RECURSIVE DispatchClearSearch(_, _, _)
DispatchClearSearch(n, s, ev) ==
    IF n = 0 THEN s
    ELSE clearSearchListener(n, DispatchClearSearch(n - 1, s, ev), ev)

\* ----------------------------------------------------------------- initial
\* The addresses the page is loaded with, each with the text the server
\* renders into the text field: the q of the address.
InitPages ==
    { [query |-> << >>, text |-> << >>],
      [query |-> << <<"tags", <<"v">> >>, <<"tags", <<"d">> >>,
                    <<"tags", <<"v">> >>, <<"q", <<"s">> >>,
                    <<"page", <<"2">> >> >>,
       text |-> <<"s">>] }

Init ==
    /\ searchUrl \in SearchUrls
    /\ \E p \in InitPages :
           /\ text = p.text
           /\ location = IF p.query = << >> THEN <<Pathname>>
                         ELSE <<Pathname, "?">> \o ParamsToString(p.query)
    /\ historyLen = 1
    /\ navCount = 0
    /\ results = <<"server">>
    /\ timers = << >>
    /\ timeoutId = [e \in Engines |-> 0]
    /\ reqs = << >>
    /\ logged = 0
    /\ searchController = [e \in Engines |-> 0]
    /\ events = << >>
    /\ sinceSched = 0
    /\ textAtSched = text
    /\ lastGood = location
    /\ extraTagValues = BoxValues
    /\ open = FALSE
    /\ checked = {}
    /\ badge = << >>
    /\ visited = <<location>>
    /\ visitedBy = <<0>>
    /\ pending = NoPending
    /\ row = NoRow

\* ----------------------------------------------------------------- actions
\* The bounds leave room for one more user event.
RoomForEvent ==
    /\ Len(events) < MaxEvents
    /\ Len(reqs) + Len(timers) + NumEngines <= MaxRequests

\* The user edits the text field: an input event.
Input(v) ==
    /\ RoomForEvent
    /\ v # text
    /\ Becomes(DispatchInput(NumEngines, [Page EXCEPT !.text = v],
                             Len(events) + 1))
    /\ events' = Append(events, "input")
    /\ sinceSched' = 0
    /\ textAtSched' = v
    /\ logged' = 0
    /\ UNCHANGED <<results, lastGood, dropdownVars, visited, visitedBy, pending, row>>

\* The user submits the search form.
Submit ==
    /\ RoomForEvent
    /\ Becomes(DispatchSubmit(NumEngines, Page, Len(events) + 1))
    /\ events' = Append(events, "submit")
    /\ logged' = 0
    /\ UNCHANGED <<results, sinceSched, textAtSched, lastGood, dropdownVars, visited, visitedBy, pending, row>>

\* The user clicks the clear-search button.  The button is outside the
\* extra-tags dropdown, so the click listener of the document closes that.
ClearSearch ==
    /\ RoomForEvent
    /\ Becomes(DispatchClearSearch(NumEngines, Page, Len(events) + 1))
    /\ events' = Append(events, "clear")
    /\ sinceSched' = 0
    /\ textAtSched' = << >>
    /\ logged' = 0
    /\ open' = FALSE
    /\ UNCHANGED <<results, lastGood, extraTagValues, checked, badge, visited, visitedBy, pending, row>>

\* Time passes while no timer is due.
Tick ==
    /\ timers # << >>
    /\ \A i \in 1..Len(timers) : timers[i].left > 0
    /\ timers' = [i \in 1..Len(timers) |->
                     [timers[i] EXCEPT !.left = Max(0, @ - TickStep)]]
    /\ sinceSched' = IF sinceSched + TickStep > Delay THEN Delay
                     ELSE sinceSched + TickStep
    /\ logged' = 0
    /\ UNCHANGED <<searchUrl, text, location, historyLen, navCount, results,
                   timeoutId, reqs, searchController, events, textAtSched,
                   lastGood, dropdownVars, visited, visitedBy, pending, row>>

\* Position in timers of the oldest due timer, 0 when no timer is due.
FirstDue ==
    IF \E i \in 1..Len(timers) : timers[i].left = 0
    THEN CHOOSE i \in 1..Len(timers) :
             /\ timers[i].left = 0
             /\ \A j \in 1..(i - 1) : timers[j].left > 0
    ELSE 0

\* The oldest due timer runs its callback: requestSearch of its engine.
TimerFire ==
    /\ FirstDue # 0
    /\ LET i == FirstDue
           rest == SubSeq(timers, 1, i - 1)
                   \o SubSeq(timers, i + 1, Len(timers))
       IN  Becomes(requestSearch(timers[i].eng,
                                 [Page EXCEPT !.timers = rest],
                                 "timer", timers[i].ev))
    /\ logged' = 0
    /\ UNCHANGED <<results, events, sinceSched, textAtSched, lastGood,
                   dropdownVars, visited, visitedBy, pending, row>>

\* ------------------------------------------------- the network's answers
\* The value of a field an object does not have.
Undefined == <<"undefined">>

\* What the server's fragment for a request URL looks like in the container.
Markup(url) == <<"html">> \o url

\* A request whose call of requestSearch has returned.  Nothing of the
\* program refers to its outcome any more; its place in reqs is kept, and
\* what it recorded of the container at its dispatch is dropped.
Settled(k) == [reqs EXCEPT ![k].status = "settled", ![k].shown = None]

\* fetch resolves with a success status: requestSearch goes on to
\* await response.json().
ResponseOk(k) ==
    /\ reqs[k].status = "inflight"
    /\ reqs' = [reqs EXCEPT ![k].status = "body"]
    /\ logged' = 0
    /\ UNCHANGED <<searchUrl, text, location, historyLen, navCount, results,
                   timers, timeoutId, searchController, events, sinceSched,
                   textAtSched, lastGood, dropdownVars, visited, visitedBy, pending, row>>

\* fetch resolves with a non-success status: requestSearch returns.
ResponseNotOk(k) ==
    /\ reqs[k].status = "inflight"
    /\ reqs' = Settled(k)
    /\ logged' = 0
    /\ UNCHANGED <<searchUrl, text, location, historyLen, navCount, results,
                   timers, timeoutId, searchController, events, sinceSched,
                   textAtSched, lastGood, dropdownVars, visited, visitedBy, pending, row>>

\* fetch rejects with a transport error: the catch logs it.
ResponseError(k) ==
    /\ reqs[k].status = "inflight"
    /\ reqs' = Settled(k)
    /\ logged' = k
    /\ UNCHANGED <<searchUrl, text, location, historyLen, navCount, results,
                   timers, timeoutId, searchController, events, sinceSched,
                   textAtSched, lastGood, dropdownVars, visited, visitedBy, pending, row>>

\* The body has been read to its end.  The promise of response.json()
\* settles in a task of its own, BodyParsed or BodyThrows; events and timers
\* can run before it, and an abort no longer stops it.
BodyRead(k) ==
    /\ reqs[k].status = "body"
    /\ reqs' = [reqs EXCEPT ![k].status = "read"]
    /\ logged' = 0
    /\ UNCHANGED <<searchUrl, text, location, historyLen, navCount, results,
                   timers, timeoutId, searchController, events, sinceSched,
                   textAtSched, lastGood, dropdownVars, visited, visitedBy, pending, row>>

\* The body is no JSON and response.json() rejects with a SyntaxError, or it
\* is the JSON null and data.html throws a TypeError: the catch logs the
\* error, which is no AbortError, whether or not the signal is aborted, and
\* nothing is rendered.
BodyThrows(k) ==
    /\ reqs[k].status = "read"
    /\ reqs' = Settled(k)
    /\ logged' = k
    /\ UNCHANGED <<searchUrl, text, location, historyLen, navCount, results,
                   timers, timeoutId, searchController, events, sinceSched,
                   textAtSched, lastGood, dropdownVars, visited, visitedBy, pending, row>>

\* BodyParsed that writes the container only when data has an html.
BodyParsed_keepsOld(k, html) ==
    /\ reqs[k].status = "read"
    /\ reqs' = Settled(k)
    /\ results' = IF html = Undefined \/ html = << >> THEN results ELSE html
    /\ lastGood' = reqs[k].addr
    /\ logged' = 0
    /\ UNCHANGED <<searchUrl, text, location, historyLen, navCount,
                   timers, timeoutId, searchController, events, sinceSched,
                   textAtSched, dropdownVars, visited, visitedBy, pending, row>>

\* response.json() resolves with data, which is not null, and requestSearch
\* writes the container: resultsContainer.innerHTML = data.html || "".  html
\* is the html field of data, Undefined when data has none.
BodyParsed(k, html) ==
    /\ reqs[k].status = "read"
    /\ reqs' = Settled(k)
    /\ results' = IF html = Undefined \/ html = << >> THEN << >> ELSE html
    /\ lastGood' = reqs[k].addr
    /\ logged' = 0
    /\ UNCHANGED <<searchUrl, text, location, historyLen, navCount,
                   timers, timeoutId, searchController, events, sinceSched,
                   textAtSched, dropdownVars, visited, visitedBy, pending, row>>

\* The html fields the server can answer a request with.
Htmls(k) == {Undefined, << >>, Markup(reqs[k].url)}

\* ------------------------------------------------------------ specification
Next ==
    \/ \E v \in InputTexts : Input(v)
    \/ Submit
    \/ ClearSearch
    \/ Tick
    \/ TimerFire
    \/ \E k \in 1..Len(reqs) : ResponseOk(k)
    \/ \E k \in 1..Len(reqs) : ResponseNotOk(k)
    \/ \E k \in 1..Len(reqs) : ResponseError(k)
    \/ \E k \in 1..Len(reqs) : BodyRead(k)
    \/ \E k \in 1..Len(reqs) : BodyThrows(k)
    \/ \E k \in 1..Len(reqs) : \E html \in Htmls(k) : BodyParsed(k, html)

Spec == Init /\ [][Next]_vars

\* ------------------------------------------- tag buttons and the dropdown
\* Number of user events (clicks, key presses, checkbox changes) in a
\* behaviour of the tag buttons and the extra-tags dropdown.
MaxClicks == 3

\* The part of the page the click, keydown and change listeners read and
\* write; href is the last value assigned to window.location.href.
NavPage ==
    [location |-> location, extraTagValues |-> extraTagValues,
     open |-> open, checked |-> checked, badge |-> badge, href |-> None]

\* applySelection with history.replaceState in the place of the navigation.
applySelection_replace(s, tagsSet) ==
    LET params0 == ParamsDelete(ParseQuery(LocationSearch(s.location)), "tags")
        params == params0 \o [i \in 1..Len(tagsSet) |-> <<"tags", tagsSet[i]>>]
    IN  [s EXCEPT !.location = buildTarget(s, params)]

\* applySelection(tagsSet): the current query with its tags replaced by those
\* of tagsSet, assigned to window.location.href.
applySelection(s, tagsSet) ==
    LET params0 == ParamsDelete(ParseQuery(LocationSearch(s.location)), "tags")
        params == params0 \o [i \in 1..Len(tagsSet) |-> <<"tags", tagsSet[i]>>]
    IN  [s EXCEPT !.href = buildTarget(s, params)]

\* filterListener that only ever adds the tag.
filterListener_addOnly(e, s, value) ==
    applySelection(s, SetAdd(getCurrentTags(s), value))

\* The click listener engine e puts on the quick filter button of a tag.
filterListener(e, s, value) ==
    LET tagsSet == getCurrentTags(s)
    IN  IF Contains(tagsSet, value)
        THEN applySelection(s, SetDelete(tagsSet, value))
        ELSE applySelection(s, SetAdd(tagsSet, value))

\* resetListener that navigates to the bare path.
resetListener_dropsAll(e, s) == [s EXCEPT !.href = buildTarget(s, << >>)]

\* The click listener engine e puts on the reset button.
resetListener(e, s) ==
    LET params == ParamsDelete(ParseQuery(LocationSearch(s.location)), "tags")
    IN  [s EXCEPT !.href = buildTarget(s, params)]

\* A click on a quick filter button, on the reset button: the listeners of
\* engines 1..n run one after the other.
RECURSIVE DispatchFilterClick(_, _, _)
DispatchFilterClick(n, s, value) ==
    IF n = 0 THEN s
    ELSE filterListener(n, DispatchFilterClick(n - 1, s, value), value)

RECURSIVE DispatchReset(_, _)
DispatchReset(n, s) ==
    IF n = 0 THEN s ELSE resetListener(n, DispatchReset(n - 1, s))

closeExtraDropdown(s) == [s EXCEPT !.open = FALSE]

openExtraDropdown(s) == [s EXCEPT !.open = TRUE]

\* The click listener of the dropdown's toggle.
toggleListener(s) ==
    IF s.open THEN closeExtraDropdown(s) ELSE openExtraDropdown(s)

\* documentClickListener that closes the dropdown wherever the click is.
documentClickListener_closesAlways(s, inside) == closeExtraDropdown(s)

\* The click listener of the document; inside tells whether the dropdown
\* contains the target of the click.
documentClickListener(s, inside) ==
    IF inside THEN s ELSE closeExtraDropdown(s)

\* The text of the count badge for n checked checkboxes.
CountText(n) == IF n # 0 THEN <<"(">> \o Decimal(n) \o <<")">> ELSE << >>

\* updateExtraCount that leaves the badge as it is.
updateExtraCount_skipped(s) == s

\* updateExtraCount()
updateExtraCount(s) ==
    [s EXCEPT !.badge = CountText(Cardinality(s.checked))]

\* The values of the checked checkboxes 1..i added to tagsSet, in document
\* order; a checkbox without a value adds nothing.
RECURSIVE AddChecked(_, _, _)
AddChecked(s, tagsSet, i) ==
    IF i = 0 THEN tagsSet
    ELSE LET before == AddChecked(s, tagsSet, i - 1)
             value == BoxValues[i]
         IN  IF i \in s.checked /\ value # << >> THEN SetAdd(before, value)
             ELSE before

\* The values of the list vs[1..i] deleted from tagsSet.
RECURSIVE DeleteValues(_, _, _)
DeleteValues(tagsSet, vs, i) ==
    IF i = 0 THEN tagsSet
    ELSE SetDelete(DeleteValues(tagsSet, vs, i - 1), vs[i])

\* applyExtraTags that starts from an empty Set.
applyExtraTags_fromEmpty(s) ==
    applySelection(s, AddChecked(s, << >>, Len(BoxValues)))

\* applyExtraTags(): the current tags without the values of extraTagValues
\* and with the values of the checked checkboxes.
applyExtraTags(s) ==
    LET tagsSet == getCurrentTags(s)
        kept == IF Len(s.extraTagValues) # 0
                THEN DeleteValues(tagsSet, s.extraTagValues,
                                  Len(s.extraTagValues))
                ELSE tagsSet
    IN  applySelection(s, AddChecked(s, kept, Len(BoxValues)))

\* keydownListener that also commits the selection on Escape.
keydownListener_commits(s, key) ==
    IF key = "Escape" THEN applyExtraTags(closeExtraDropdown(s)) ELSE s

\* The keydown listener of the document.
keydownListener(s, key) ==
    IF key = "Escape" THEN closeExtraDropdown(s) ELSE s

\* checkboxListener that commits the selection at once.
checkboxListener_commits(s) == applyExtraTags(updateExtraCount(s))

\* The change listener of an extra-tag checkbox.
checkboxListener(s) == updateExtraCount(s)

\* The click listener of the apply button.
applyListener(s) == applyExtraTags(closeExtraDropdown(s))

\* The click listener of the clear button.
clearListener(s) ==
    LET s1 == [s EXCEPT !.checked = {}]
    IN  applyExtraTags(closeExtraDropdown(updateExtraCount(s1)))

\* The text the server renders into the text field for an address: its q.
LoadedText(target) ==
    LET q == GetAll(ParseQuery(QueryString(target)), "q")
    IN  IF q = << >> THEN << >> ELSE q[1]

\* The checkboxes a freshly loaded page can show checked: those whose value
\* is among the tags of the address, or none.
LoadedChecked(target) ==
    LET tags == GetAll(ParseQuery(QueryString(target)), "tags")
    IN  { {i \in Boxes : Contains(tags, BoxValues[i])}, {} }

\* The page after the listeners of event number ev have run on s.  The
\* listeners leave the address alone.  An assignment to window.location.href
\* starts a navigation to the address assigned last, in the place of one that
\* is still under way; the page stays, with the state the listeners left,
\* until the browser loads that address.
Handled(s, ev) ==
    /\ extraTagValues' = s.extraTagValues
    /\ location' = s.location
    /\ open' = s.open
    /\ checked' = s.checked
    /\ badge' = s.badge
    /\ pending' = IF s.href = None THEN pending
                  ELSE [href |-> s.href, by |-> ev]
    /\ logged' = 0
    /\ UNCHANGED <<searchUrl, text, historyLen, navCount, results, timers,
                   timeoutId, reqs, searchController, sinceSched, textAtSched,
                   lastGood, visited, visitedBy, row>>

\* The browser loads the address of the navigation under way: the scripts
\* start anew, with no timer and no request, the dropdown closed, the
\* checkboxes as the server renders them and the badge that
\* updateExtraCount() writes at the end of the script.
PageLoad ==
    /\ pending # NoPending
    /\ location' = pending.href
    /\ historyLen' = IF pending.href = location THEN historyLen
                     ELSE historyLen + 1
    /\ navCount' = navCount + 1
    /\ visited' = Append(visited, pending.href)
    /\ visitedBy' = Append(visitedBy, pending.by)
    /\ pending' = NoPending
    /\ lastGood' = pending.href
    /\ text' = LoadedText(pending.href)
    /\ textAtSched' = LoadedText(pending.href)
    /\ sinceSched' = 0
    /\ results' = <<"server">>
    /\ timers' = << >>
    /\ timeoutId' = [e \in Engines |-> 0]
    /\ reqs' = << >>
    /\ searchController' = [e \in Engines |-> 0]
    /\ logged' = 0
    /\ open' = FALSE
    /\ \E c \in LoadedChecked(pending.href) :
           /\ checked' = c
           /\ badge' = CountText(Cardinality(c))
    /\ UNCHANGED <<searchUrl, extraTagValues, events, row>>

\* The addresses the listing page is loaded with before the first click.
NavPages ==
    { [query |-> << >>, text |-> << >>],
      [query |-> << <<"tags", <<"v">> >>, <<"tags", <<"g">> >>,
                    <<"q", <<"s">> >>, <<"page", <<"2">> >> >>,
       text |-> <<"s">>] }

NavInit ==
    /\ searchUrl = "/recipes/search"
    /\ \E p \in NavPages :
           /\ text = p.text
           /\ location = IF p.query = << >> THEN <<Pathname>>
                         ELSE <<Pathname, "?">> \o ParamsToString(p.query)
    /\ historyLen = 1
    /\ navCount = 0
    /\ results = <<"server">>
    /\ timers = << >>
    /\ timeoutId = [e \in Engines |-> 0]
    /\ reqs = << >>
    /\ logged = 0
    /\ searchController = [e \in Engines |-> 0]
    /\ events = << >>
    /\ sinceSched = 0
    /\ textAtSched = text
    /\ lastGood = location
    /\ visited = <<location>>
    /\ visitedBy = <<0>>
    /\ pending = NoPending
    /\ \E attr \in ExtraTagAttrs : extraTagValues = ParseExtraTagValues(attr)
    /\ open = FALSE
    /\ checked \in LoadedChecked(location)
    /\ badge = CountText(Cardinality(checked))
    /\ row = NoRow

\* The bound leaves room for one more user event.
RoomForClick == Len(events) < MaxClicks

\* The name an event on a quick filter button or on a checkbox goes by.
FilterEvent(value) == IF value = <<"v">> THEN "filter v" ELSE "filter d"

ChangeEvent(i, nowChecked) ==
    CASE i = 1 /\ nowChecked  -> "check g"
      [] i = 1 /\ ~nowChecked -> "uncheck g"
      [] i = 2 /\ nowChecked  -> "check n"
      [] OTHER                -> "uncheck n"

\* The user clicks the quick filter button of a tag.  The buttons are outside
\* the dropdown, so the click listener of the document closes that.
FilterClick(value) ==
    /\ RoomForClick
    /\ Handled(documentClickListener(
                   DispatchFilterClick(NumEngines, NavPage, value), FALSE),
               Len(events) + 1)
    /\ events' = Append(events, FilterEvent(value))

\* The user clicks the reset button, which is outside the dropdown.
ResetClick ==
    /\ RoomForClick
    /\ Handled(documentClickListener(DispatchReset(NumEngines, NavPage), FALSE),
               Len(events) + 1)
    /\ events' = Append(events, "reset")

\* The user clicks the toggle of the dropdown.
ToggleClick ==
    /\ RoomForClick
    /\ Handled(documentClickListener(toggleListener(NavPage), TRUE),
               Len(events) + 1)
    /\ events' = Append(events, "toggle")

\* The user clicks somewhere outside the dropdown, on no control.
OutsideClick ==
    /\ RoomForClick
    /\ Handled(documentClickListener(NavPage, FALSE), Len(events) + 1)
    /\ events' = Append(events, "outside")

\* The user clicks inside the dropdown, on none of its controls.
InsideClick ==
    /\ RoomForClick
    /\ Handled(documentClickListener(NavPage, TRUE), Len(events) + 1)
    /\ events' = Append(events, "inside")

\* The user presses a key.
KeyDown(key) ==
    /\ RoomForClick
    /\ Handled(keydownListener(NavPage, key), Len(events) + 1)
    /\ events' = Append(events, IF key = "Escape" THEN "escape" ELSE "key")

\* The user clicks extra-tag checkbox i: its checked state flips and its
\* change listener runs.
CheckboxChange(i) ==
    /\ RoomForClick
    /\ LET s1 == [NavPage EXCEPT !.checked =
                     IF i \in @ THEN @ \ {i} ELSE @ \cup {i}]
       IN  Handled(documentClickListener(checkboxListener(s1), TRUE),
                   Len(events) + 1)
    /\ events' = Append(events, ChangeEvent(i, i \notin checked))

\* The user clicks the apply button of the panel.
ApplyClick ==
    /\ RoomForClick
    /\ Handled(documentClickListener(applyListener(NavPage), TRUE),
               Len(events) + 1)
    /\ events' = Append(events, "apply")

\* The user clicks the clear button of the panel.
ClearClick ==
    /\ RoomForClick
    /\ Handled(documentClickListener(clearListener(NavPage), TRUE),
               Len(events) + 1)
    /\ events' = Append(events, "clear")

NavNext ==
    \/ \E value \in QuickTags : FilterClick(value)
    \/ ResetClick
    \/ ToggleClick
    \/ OutsideClick
    \/ InsideClick
    \/ \E key \in Keys : KeyDown(key)
    \/ \E i \in Boxes : CheckboxChange(i)
    \/ ApplyClick
    \/ ClearClick
    \/ PageLoad

NavSpec == NavInit /\ [][NavNext]_vars

\* ------------------------------- ingredient autocomplete (recipe_form.js)
\* Number of user events (input, click, key) on the ingredient row.
MaxKeys == 3

\* Values the user can leave in the name field after an input event.
RowValues == {<<"a">>, <<"a", "b">>, <<"a", " ", "b">>}

\* The state of the recipe listing page, which the ingredient row leaves alone.
recipesVars ==
    <<searchUrl, text, location, historyLen, navCount, results, timers,
      timeoutId, reqs, logged, searchController, events, sinceSched,
      textAtSched, lastGood, extraTagValues, open, checked, badge, visited,
      visitedBy, pending>>

\* encodeURIComponent on the model alphabet: a space and the characters
\* "+", "&" and "=" are percent-encoded.
EncodeComponentChar(c) ==
    CASE c = " " -> "%20"
      [] c = "+" -> "%2B"
      [] c = "&" -> "%26"
      [] c = "=" -> "%3D"
      [] OTHER   -> c

EncodeURIComponent(str) ==
    [i \in 1..Len(str) |-> EncodeComponentChar(str[i])]

\* The URL the input listener fetches for a query.
SuggestUrl(query) == <<"/recipes/ingredients", "?", "q", "=">>
                         \o EncodeURIComponent(query)

\* The items the server can answer the URL with: two names that start with
\* the q of the URL, one with a unit and one without.
Items(url) ==
    LET q == QueryString(url)
    IN  << [name |-> q \o <<"x">>, unit |-> "ml"],
           [name |-> q \o <<"y">>, unit |-> ""] >>

\* The items field of the JSON a response can hold, Undefined for none.
ItemsFields(url) == {<<"undefined">>, Items(url)}

\* hideList(event), for a click whose target the row does not contain.
hideList(r) == [r EXCEPT !.list = << >>, !.display = "none"]

\* applySuggestion(item)
applySuggestion(r, item) ==
    [r EXCEPT !.value = item.name,
              !.unit = IF item.unit # "" THEN item.unit ELSE "g",
              !.currentSuggestions = << >>,
              !.list = << >>,
              !.display = "none"]

\* renderList(): one option per suggestion, the list hidden when there is
\* none.
renderList(r) ==
    IF Len(r.currentSuggestions) = 0
    THEN [r EXCEPT !.list = << >>, !.display = "none"]
    ELSE [r EXCEPT !.list = r.currentSuggestions, !.display = "flex"]

\* The input listener of the name field, up to its first await.
rowInputListener(r) ==
    LET query == Trim(r.value)
    IN  IF Len(query) < 2
        THEN renderList([r EXCEPT !.currentSuggestions = << >>])
        ELSE [r EXCEPT !.calls =
                 Append(@, [url |-> SuggestUrl(query), status |-> "fetch"])]

\* The catch of the input listener.
rowCatch(r, k) ==
    renderList([r EXCEPT !.currentSuggestions = << >>,
                         !.calls[k].status = "done"])

\* The bound leaves room for one more user event on the row.
RoomForKey == row.steps < MaxKeys

\* The user edits the name field: an input event.
RowInput(v) ==
    /\ RoomForKey
    /\ v # row.value
    /\ row' = rowInputListener([row EXCEPT !.value = v, !.steps = @ + 1])
    /\ UNCHANGED recipesVars

\* The fetch of call k resolves, whatever its status: the listener goes on
\* to await resp.json().
RowFetchResolved(k) ==
    /\ row.calls[k].status = "fetch"
    /\ row' = [row EXCEPT !.calls[k].status = "json"]
    /\ UNCHANGED recipesVars

\* The fetch of call k rejects.
RowFetchRejected(k) ==
    /\ row.calls[k].status = "fetch"
    /\ row' = rowCatch(row, k)
    /\ UNCHANGED recipesVars

\* resp.json() of call k resolves with data whose items field is items:
\* currentSuggestions = data.items || [], then renderList().
RowJsonResolved(k, items) ==
    /\ row.calls[k].status = "json"
    /\ row' = renderList(
                  [row EXCEPT !.currentSuggestions =
                                  IF items = <<"undefined">> THEN << >>
                                  ELSE items,
                              !.calls[k].status = "done"])
    /\ UNCHANGED recipesVars

\* resp.json() of call k rejects: the body is no JSON.
RowJsonRejected(k) ==
    /\ row.calls[k].status = "json"
    /\ row' = rowCatch(row, k)
    /\ UNCHANGED recipesVars

\* The user clicks outside the row.
RowOutsideClick ==
    /\ RoomForKey
    /\ row' = hideList([row EXCEPT !.steps = @ + 1])
    /\ UNCHANGED recipesVars

\* The user clicks option i of the list.
RowOptionClick(i) ==
    /\ RoomForKey
    /\ row' = applySuggestion([row EXCEPT !.steps = @ + 1], row.list[i])
    /\ UNCHANGED recipesVars

\* The user presses Tab in the name field.
RowTab ==
    /\ RoomForKey
    /\ row' = IF Len(row.currentSuggestions) # 0
              THEN applySuggestion([row EXCEPT !.steps = @ + 1],
                                   row.currentSuggestions[1])
              ELSE [row EXCEPT !.steps = @ + 1]
    /\ UNCHANGED recipesVars

\* The inline display a row's markup can give its list when attachAutocomplete
\* runs: the empty string (no inline style, as in the markup the add-row button
\* writes) or "none" (a server-rendered row that hides its list inline).
InlineDisplays == {"", "none"}

\* The recipe form: the listing page is not there.
RowInit ==
    /\ \E d \in InlineDisplays : row = [NoRow EXCEPT !.display = d]
    /\ searchUrl = ""
    /\ text = << >>
    /\ location = <<"/recipes/new">>
    /\ historyLen = 1
    /\ navCount = 0
    /\ results = << >>
    /\ timers = << >>
    /\ timeoutId = [e \in Engines |-> 0]
    /\ reqs = << >>
    /\ logged = 0
    /\ searchController = [e \in Engines |-> 0]
    /\ events = << >>
    /\ sinceSched = 0
    /\ textAtSched = << >>
    /\ lastGood = location
    /\ visited = <<location>>
    /\ visitedBy = <<0>>
    /\ pending = NoPending
    /\ extraTagValues = << >>
    /\ open = FALSE
    /\ checked = {}
    /\ badge = << >>

RowNext ==
    \/ \E v \in RowValues : RowInput(v)
    \/ \E k \in 1..Len(row.calls) : RowFetchResolved(k)
    \/ \E k \in 1..Len(row.calls) : RowFetchRejected(k)
    \/ \E k \in 1..Len(row.calls) :
           \E items \in ItemsFields(row.calls[k].url) :
               RowJsonResolved(k, items)
    \/ \E k \in 1..Len(row.calls) : RowJsonRejected(k)
    \/ RowOutsideClick
    \/ \E i \in 1..Len(row.list) : RowOptionClick(i)
    \/ RowTab

RowSpec == RowInit /\ [][RowNext]_vars

\* ------------------------------------------------------------- properties
\* The q of a URL or address: its values, in order ("" when there is none).
QOf(url) == GetAll(ParseQuery(QueryString(url)), "q")

\* The tags of a URL or address, in order.
TagsOf(url) == GetAll(ParseQuery(QueryString(url)), "tags")

\* Request k is alive: dispatched, not cancelled and not settled.
Alive(k) == reqs[k].status # "settled" /\ ~reqs[k].aborted

\* Request k writes the results container in this step.
Renders(k) == \E html \in Htmls(k) : BodyParsed(k, html)

\* This step is the user event of the given kind.
EventStep(kind) == events' = Append(events, kind)

\* This step runs the callback of a timer: a timer goes without an event.
TimerStep == events' = events /\ Len(timers') < Len(timers)

\* C1: the results container is only ever written with the response of the
\* most recently dispatched request of the page.
C1_OnlyLatestDispatchRenders ==
    [][\A k \in 1..Len(reqs) : Renders(k) => k = Len(reqs)]_vars

\* C2: each engine has at most one alive request, and every request of an
\* engine that was dispatched before another of that engine is cancelled or
\* settled.
C2_AtMostOneAlive ==
    /\ \A e \in Engines :
           Cardinality({k \in 1..Len(reqs) : reqs[k].eng = e /\ Alive(k)}) <= 1
    /\ \A k, j \in 1..Len(reqs) :
           (k < j /\ reqs[k].eng = reqs[j].eng) => ~Alive(k)

\* An engine has dispatched a request after another one: the signal of the
\* earlier one is aborted, and the new one is alive.
C2_Witness ==
    \E k, j \in 1..Len(reqs) :
        /\ k < j
        /\ reqs[k].eng = reqs[j].eng
        /\ reqs[k].aborted
        /\ Alive(j)

\* C3: a response is rendered only if its request is the latest one its
\* engine has issued, also when the abort came too late to stop it.
C3_RenderOnlyLatestIssued ==
    [][\A k \in 1..Len(reqs) :
           Renders(k) => searchController[reqs[k].eng] = k]_vars

\* Engine e has, among the timers ts, one that event n set.
Pending(ts, e, n) ==
    \E i \in 1..Len(ts) : ts[i].eng = e /\ ts[i].ev = n

\* C4: within an engine, the timer that runs is the one set by the last
\* event that called the debounced function, the delay has elapsed since
\* that event, no other timer of the engine is pending, no dispatch has run
\* for that event before, and the request carries the text of that event;
\* and a pending timer goes away only by running or by a later event of the
\* burst setting a new one.
C4_DebounceOncePerBurst ==
    [][/\ \A i \in 1..Len(timers) :
            ~Pending(timers', timers[i].eng, timers[i].ev) =>
                \/ TimerStep /\ i = FirstDue
                \/ /\ timeoutId'[timers[i].eng] > timers[i].ev
                   /\ Pending(timers', timers[i].eng,
                              timeoutId'[timers[i].eng])
       /\ TimerStep =>
        LET t == timers[FirstDue]
        IN  /\ t.ev = timeoutId[t.eng]
            /\ sinceSched >= Delay
            /\ \A i \in 1..Len(timers) :
                   timers[i].eng = t.eng => i = FirstDue
            /\ \A k \in 1..Len(reqs) :
                   ~(reqs[k].eng = t.eng /\ reqs[k].cause = "timer"
                     /\ reqs[k].ev >= t.ev)
            /\ searchUrl # "" =>
                   /\ Len(reqs') = Len(reqs) + 1
                   /\ reqs'[Len(reqs')].eng = t.eng
                   /\ QOf(reqs'[Len(reqs')].url) =
                          IF Trim(textAtSched) = << >> THEN << >>
                          ELSE <<Trim(textAtSched)>>]_vars

\* Two input events followed each other within the delay, and the timer of
\* the second has run for an engine, with the text of the second.
C4_Witness ==
    /\ events = <<"input", "input">>
    /\ \A k \in 1..Len(reqs) : reqs[k].ev = 2
    /\ \E k \in 1..Len(reqs) :
           /\ reqs[k].cause = "timer"
           /\ QOf(reqs[k].url) = << <<"s", "p">> >>

\* C5: a burst of input events causes one network request on the page.
C5_OneRequestPerBurst ==
    \A k, j \in 1..Len(reqs) :
        (reqs[k].cause = "timer" /\ reqs[j].cause = "timer"
         /\ reqs[k].ev = reqs[j].ev) => k = j

\* C6: a form submit dispatches a search in the step of the submit event,
\* whatever timers are pending, with the trimmed text as its q; the text
\* field holds the trimmed text afterwards.
C6_SubmitDispatchesAtOnce ==
    [][(EventStep("submit") /\ searchUrl # "") =>
        /\ Len(reqs') > Len(reqs)
        /\ text' = Trim(text)
        /\ \A k \in (Len(reqs) + 1)..Len(reqs') :
               /\ reqs'[k].status = "inflight"
               /\ QOf(reqs'[k].url) = IF Trim(text) = << >> THEN << >>
                                      ELSE <<Trim(text)>>]_vars

\* A submit came while a debounce timer set by an earlier event was pending,
\* and its request is out.
C6_Witness ==
    \E k \in 1..Len(reqs), i \in 1..Len(timers) :
        /\ reqs[k].cause = "submit"
        /\ reqs[k].status = "inflight"
        /\ timers[i].ev < reqs[k].ev
        /\ timers[i].left > 0

\* C7: after a submit has dispatched, no timer set before the submit
\* dispatches.
C7_SubmitCancelsPendingTimer ==
    \A k, j \in 1..Len(reqs) :
        (k < j /\ reqs[k].cause = "submit" /\ reqs[j].cause = "timer")
            => reqs[j].ev > reqs[k].ev

\* C8: a clear-search click dispatches a search in the step of the click.
C8_ClearDispatchesAtOnce ==
    [][(EventStep("clear") /\ searchUrl # "") => Len(reqs') > Len(reqs)]_vars

\* C9: a clear-search click leaves the text field empty and the address
\* without q and with the tags it had (each once, in the order of their
\* first entries); no history entry is added and no navigation occurs.
C9_ClearSearchAddress ==
    [][EventStep("clear") =>
        /\ text' = << >>
        /\ QOf(location') = << >>
        /\ TagsOf(location') = NewSet(TagsOf(location))
        /\ Range(TagsOf(location')) = Range(TagsOf(location))
        /\ LocationPathname(location') = LocationPathname(location)
        /\ historyLen' = historyLen
        /\ navCount' = navCount]_vars

\* The clear-search button was clicked on the page loaded with the tags v,
\* d, v and q=s: the address has the two tags and no q, the field is empty.
C9_Witness ==
    /\ events = <<"clear">>
    /\ text = << >>
    /\ TagsOf(location) = << <<"v">>, <<"d">> >>
    /\ QOf(location) = << >>

\* C10: the query string a dispatch writes to the address is the query
\* string of the URL it requests, and the address holds it when the dispatch
\* has run.
C10_AddressIsRequestQuery ==
    /\ \A k \in 1..Len(reqs) :
           QueryString(reqs[k].addr) = QueryString(reqs[k].url)
    /\ (reqs # << >> /\ events # << >> /\ events[Len(events)] # "clear"
        /\ reqs[Len(reqs)].ev = Len(events))
           => QueryString(location) = QueryString(reqs[Len(reqs)].url)

\* A request is out whose URL has two tags entries and a q.
C10_Witness ==
    \E k \in 1..Len(reqs) :
        /\ Len(TagsOf(reqs[k].url)) = 2
        /\ QOf(reqs[k].url) # << >>
        /\ QueryString(location) = QueryString(reqs[k].url)

\* Request k fails in this step: its fetch resolves with a non-success
\* status or rejects with a transport error, or response.json() rejects or
\* line 89 throws on its data (the catch logs that).  (A request a newer
\* dispatch aborts while its fetch or its body read is pending settles in
\* the step of that dispatch.)
FailStep(k) ==
    /\ Len(reqs') = Len(reqs)
    /\ reqs'[k].status = "settled"
    /\ \/ reqs[k].status = "inflight"
       \/ reqs[k].status = "read" /\ logged' = k

\* Request k is superseded in this step: a newer dispatch aborts it.
SupersededStep(k) == ~reqs[k].aborted /\ reqs'[k].aborted

\* C11: when a request fails, the results container holds exactly what it
\* held when that request was dispatched, and nothing is thrown into the
\* listener that dispatched it: the failure is a task of its own, in which
\* no listener runs, it leaves the text field, the address, the timers and
\* the controllers as they were, and the call of requestSearch ends there
\* with at most a report on the console.
C11_FailureKeepsDispatchContent ==
    [][\A k \in 1..Len(reqs) :
           FailStep(k) =>
               /\ results' = reqs[k].shown
               /\ logged' \in {0, k}
               /\ events' = events
               /\ <<text, location, historyLen, navCount, timers,
                    searchController>>' =
                  <<text, location, historyLen, navCount, timers,
                    searchController>>]_vars

\* C12: when a request fails, the address is the one the last rendered
\* search wrote (the one the page was loaded with when none has rendered).
C12_FailureRestoresAddress ==
    [][\A k \in 1..Len(reqs) : FailStep(k) => location' = lastGood]_vars

\* C13: a failing request that no newer dispatch has superseded is reported
\* on the console, and a request that a newer dispatch supersedes is not,
\* neither in the step that aborts it nor later.
C13_ReportedIffNotSuperseded ==
    [][\A k \in 1..Len(reqs) :
           /\ (FailStep(k) /\ ~reqs[k].aborted) => logged' = k
           /\ SupersededStep(k) => logged' # k
           /\ (Len(reqs') = Len(reqs) /\ logged' = k) => ~reqs[k].aborted
      ]_vars

\* The promise of response.json() of request k resolves with data in this
\* step, and line 89 runs to its end.
RenderStep(k) ==
    /\ Len(reqs') = Len(reqs)
    /\ reqs[k].status = "read"
    /\ reqs'[k].status = "settled"
    /\ logged' = 0

\* C14: the resolving request sets the container to "" when data has no html
\* or a falsy one, and to that html otherwise, whatever the container held.
C14_RenderHtmlOrEmpty ==
    [][\A k \in 1..Len(reqs) :
           RenderStep(k) =>
               /\ results' \in {<< >>, Markup(reqs[k].url)}
               /\ \A html \in Htmls(k) :
                      BodyParsed(k, html) =>
                          results' = IF html \in {Undefined, << >>} THEN << >>
                                     ELSE html]_vars

\* A request without an html has emptied the container of the loaded page.
C14_Witness ==
    /\ results = << >>
    /\ \E k \in 1..Len(reqs) : reqs[k].status = "settled"

\* The set of the tags of a URL or address.
TagSet(url) == Range(TagsOf(url))

\* The values of the checked extra-tag checkboxes.
CheckedValues == {BoxValues[i] : i \in checked}

\* The last of the user events so far, "" when there is none.
LastEvent(evs) == IF evs = << >> THEN "" ELSE evs[Len(evs)]

\* This step is a user event that goes by the given name.
ClickStep(name) == events' = Append(events, name)

\* The address the listeners of a click on the quick filter button of a tag
\* assign to window.location.href on a page at address loc.
FilterTarget(loc, value) ==
    DispatchFilterClick(NumEngines, [NavPage EXCEPT !.location = loc],
                        value).href

\* This step is a page load.
LoadStep == navCount' = navCount + 1

\* This step is the page load of a navigation that an event of the given
\* name started.
LoadStepOf(name) == LoadStep /\ events[pending.by] = name

\* The listeners of this step, the step of event number Len(events'), have
\* assigned the address target to window.location.href.
Assigns(target) == pending' = [href |-> target, by |-> Len(events')]

\* C15: clicking the quick filter button of a tag twice, each click followed
\* by its page load, gives an address with the tags set of the start; and a
\* click on the button at the address a click on it assigns gives back the
\* tags set the page has.
C15_ToggleTwiceRestores ==
    [][\A value \in QuickTags :
           /\ ClickStep(FilterEvent(value)) =>
                  TagSet(FilterTarget(FilterTarget(location, value), value))
                      = TagSet(location)
           /\ ( /\ LoadStepOf(FilterEvent(value))
                /\ pending.by >= 2
                /\ events[pending.by - 1] = FilterEvent(value)
                /\ visitedBy[Len(visitedBy)] = pending.by - 1 )
              => TagSet(location') = TagSet(visited[Len(visited) - 1])
      ]_vars

\* The button of a tag has been clicked, its page has loaded, the button has
\* been clicked there and that page has loaded: the first click changed the
\* tags set and the second brought it back.
C15_Witness ==
    \E value \in QuickTags, n \in 2..Len(events) :
        /\ events[n] = FilterEvent(value)
        /\ events[n - 1] = FilterEvent(value)
        /\ Len(visitedBy) >= 3
        /\ visitedBy[Len(visitedBy)] = n
        /\ visitedBy[Len(visitedBy) - 1] = n - 1
        /\ TagSet(visited[Len(visited) - 1]) # TagSet(location)
        /\ TagSet(visited[Len(visited) - 2]) = TagSet(location)

\* C16: a click on a quick filter button starts one navigation, to the
\* address with the tag toggled in the tags set, and sets no timer and sends
\* no request; the page load of a navigation is one load, of the address
\* assigned, and no assignment is loaded twice; from a page without tags, the
\* buttons of v and d give tags {v, d} when two pages have loaded.
C16_FilterClickNavigates ==
    [][/\ \A value \in QuickTags :
              ClickStep(FilterEvent(value)) =>
                  /\ Assigns(FilterTarget(location, value))
                  /\ TagSet(pending'.href) =
                         IF value \in TagSet(location)
                         THEN TagSet(location) \ {value}
                         ELSE TagSet(location) \cup {value}
                  /\ timers' = timers
                  /\ reqs' = reqs
       /\ LoadStep =>
              /\ location' = pending.href
              /\ visited' = Append(visited, pending.href)
              /\ pending.by \notin Range(visitedBy)
              /\ pending' = NoPending
              /\ timers' = << >>
              /\ reqs' = << >>
       /\ ( /\ events' = <<"filter v", "filter d">>
            /\ TagSet(visited'[1]) = {}
            /\ navCount' = 2 )
          => TagSet(location') = {<<"v">>, <<"d">>}]_vars

\* From a page without tags the buttons of v and d have been clicked, each
\* on the page it was loaded on, and the second page has loaded.
C16_Witness ==
    /\ events = <<"filter v", "filter d">>
    /\ TagSet(visited[1]) = {}
    /\ visitedBy = <<0, 1, 2>>
    /\ TagSet(location) = {<<"v">>, <<"d">>}
    /\ navCount = 2

\* C17: a checkbox change leaves the address and the page where they are and
\* starts no navigation; no event but apply and clear assigns an address that
\* has a checkbox value the page's address has not; toggle, check g, apply
\* ends with the panel closed and one navigation, to an address whose tags
\* contain g.
C17_ChangeCommitsNothing ==
    [][/\ \A name \in {"check g", "uncheck g", "check n", "uncheck n"} :
              ClickStep(name) =>
                  /\ location' = location
                  /\ navCount' = navCount
                  /\ historyLen' = historyLen
                  /\ visited' = visited
                  /\ pending' = pending
       /\ ( /\ pending' # pending
            /\ pending' # NoPending
            /\ LastEvent(events') \notin {"apply", "clear"} )
          => (TagSet(pending'.href) \cap Range(BoxValues))
                 \subseteq TagSet(location)
       /\ ( /\ LoadStep
            /\ events[pending.by] \notin {"apply", "clear"} )
          => (TagSet(location') \cap Range(BoxValues))
                 \subseteq TagSet(location)
       /\ events' = <<"toggle", "check g", "apply">> =>
              /\ ~open'
              /\ IF pending' # NoPending
                 THEN /\ navCount' = 0
                      /\ <<"g">> \in TagSet(pending'.href)
                 ELSE /\ navCount' = 1
                      /\ <<"g">> \in TagSet(location')]_vars

\* The panel has been opened, g checked and apply clicked, and the page has
\* loaded: the address has gained g with the one page load.
C17_Witness ==
    /\ events = <<"toggle", "check g", "apply">>
    /\ ~open
    /\ navCount = 1
    /\ visitedBy = <<0, 3>>
    /\ <<"g">> \in TagSet(location)
    /\ <<"g">> \notin TagSet(visited[1])

\* C18: Escape and a click outside the dropdown close the panel and do
\* nothing else: no page load and no navigation started, the address, the
\* requests, the timers and the checkboxes as they were; an apply after it
\* takes the checkboxes as they are then.
C18_DismissCommitsNothing ==
    [][/\ \A name \in {"escape", "outside"} :
              ClickStep(name) =>
                  /\ ~open'
                  /\ location' = location
                  /\ navCount' = navCount
                  /\ visited' = visited
                  /\ pending' = pending
                  /\ reqs' = reqs
                  /\ timers' = timers
                  /\ checked' = checked
                  /\ badge' = badge
       /\ ( /\ ClickStep("apply")
            /\ LastEvent(events) \in {"escape", "outside"} )
          => /\ Assigns(pending'.href)
             /\ CheckedValues \subseteq TagSet(pending'.href)
             /\ \A i \in Boxes \ checked :
                    BoxValues[i] \in TagSet(pending'.href) =>
                        /\ BoxValues[i] \in TagSet(location)
                        /\ BoxValues[i] \notin Range(extraTagValues)]_vars

\* The panel has been opened, n checked and Escape pressed: the panel is
\* closed, n is still checked, the address is the one of the load and no
\* navigation is under way.
C18_Witness ==
    /\ events = <<"toggle", "check n", "escape">>
    /\ ~open
    /\ 2 \in checked
    /\ navCount = 0
    /\ pending = NoPending
    /\ <<"n">> \notin TagSet(location)

\* C19: apply starts a navigation to the address whose tags are the current
\* ones without the values of the panel's list and with the values of the
\* checked checkboxes; the tags that are not in the list stay; and the page
\* load of that navigation is at that address.
C19_ApplyTags ==
    [][/\ ClickStep("apply") =>
           /\ Assigns(pending'.href)
           /\ TagSet(pending'.href) =
                  (TagSet(location) \ Range(extraTagValues))
                      \cup CheckedValues
           /\ \A t \in TagSet(location) :
                  t \notin Range(extraTagValues) =>
                      t \in TagSet(pending'.href)
       /\ LoadStepOf("apply") => location' = pending.href]_vars

\* On a page with the tags v and g, g has been unchecked, n checked and apply
\* clicked, and the page has loaded: the tags are v and n.
C19_Witness ==
    /\ events = <<"uncheck g", "check n", "apply">>
    /\ TagSet(visited[1]) = {<<"v">>, <<"g">>}
    /\ visitedBy = <<0, 3>>
    /\ TagSet(location) = {<<"v">>, <<"n">>}
    /\ navCount = 1

\* C20: clear unchecks every checkbox and starts a navigation to an address
\* whose tags hold the value of no extra-tag checkbox and every other tag of
\* before, whatever the panel's list names.
C20_ClearRemovesEveryBoxValue ==
    [][ClickStep("clear") =>
           /\ checked' = {}
           /\ Assigns(pending'.href)
           /\ TagSet(pending'.href) \cap Range(BoxValues) = {}
           /\ (TagSet(location) \ Range(BoxValues))
                  \subseteq TagSet(pending'.href)]_vars

\* The names of the checkbox changes.
ChangeEvents == {"check g", "uncheck g", "check n", "uncheck n"}

\* C21: the dropdown starts closed, on the first page and on every page
\* loaded; a click on the toggle flips it; Escape, a click outside, apply and
\* clear leave it closed; a click inside the panel that is on none of the
\* three leaves it as it is.
C21_DropdownTwoStates ==
    [][/\ events = << >> => ~open
       /\ navCount' # navCount => ~open'
       /\ ClickStep("toggle") => open' = ~open
       /\ \A name \in {"escape", "outside", "apply", "clear"} :
              ClickStep(name) => ~open'
       /\ \A name \in ChangeEvents \cup {"inside"} :
              ClickStep(name) => open' = open]_vars

\* The panel has been opened, clicked into and closed with the toggle.
C21_Witness ==
    /\ events = <<"toggle", "inside", "toggle">>
    /\ ~open
    /\ navCount = 0

\* C22: the badge shows the number of checked checkboxes in brackets, and
\* nothing when none is checked.
C22_BadgeIsCount ==
    badge = IF Cardinality(checked) = 0 THEN << >>
            ELSE <<"(">> \o Decimal(Cardinality(checked)) \o <<")">>

\* Both checkboxes have been checked and nothing is committed: the badge
\* shows 2 and the address is the one of the load.
C22_Witness ==
    /\ Len(events) = 3
    /\ SubSeq(events, 2, 3) \in {<<"check g", "check n">>,
                                 <<"check n", "check g">>}
    /\ events[1] \in {"toggle", "uncheck g", "uncheck n"}
    /\ checked = Boxes
    /\ badge = <<"(", "2", ")">>
    /\ navCount = 0

\* C24: a click on the reset button starts one navigation, to the address
\* with the tags entries removed and every other entry as it was, in its
\* place, and sets no timer and sends no request; the page load of that
\* navigation is one load, of that address.
C24_ResetKeepsOtherParams ==
    [][/\ ClickStep("reset") =>
           /\ Assigns(pending'.href)
           /\ TagsOf(pending'.href) = << >>
           /\ ~Contains(pending'.href, "tags")
           /\ ParseQuery(QueryString(pending'.href)) =
                  ParamsDelete(ParseQuery(QueryString(location)), "tags")
           /\ QOf(pending'.href) = QOf(location)
           /\ LocationPathname(pending'.href) = LocationPathname(location)
           /\ timers' = timers
           /\ reqs' = reqs
       /\ LoadStepOf("reset") =>
           /\ location' = pending.href
           /\ visited' = Append(visited, location')
           /\ pending.by \notin Range(visitedBy)
           /\ timers' = << >>
           /\ reqs' = << >>]_vars

\* Reset has been clicked on a page with tags and a q, and the page has
\* loaded: the tags are gone and the q is there.
C24_Witness ==
    /\ LastEvent(events) = "reset"
    /\ visitedBy[Len(visitedBy)] = Len(events)
    /\ TagsOf(visited[Len(visited) - 1]) # << >>
    /\ QOf(visited[Len(visited) - 1]) = << <<"s">> >>
    /\ TagsOf(location) = << >>
    /\ QOf(location) = << <<"s">> >>

\* The page at address loc, and that page with checkbox i clicked.
PageAt(loc) == [NavPage EXCEPT !.location = loc]

Flipped(s, i) ==
    [s EXCEPT !.checked = IF i \in @ THEN @ \ {i} ELSE @ \cup {i}]

\* Of the listeners of the page at address loc, those of the quick filter
\* buttons, of reset, of apply and of clear assign window.location.href, and
\* no other does.
OnlyClicksNavigate(loc) ==
    LET s == PageAt(loc)
    IN  /\ \A value \in QuickTags :
               DispatchFilterClick(NumEngines, s, value).href # None
        /\ DispatchReset(NumEngines, s).href # None
        /\ applyListener(s).href # None
        /\ clearListener(s).href # None
        /\ toggleListener(s).href = None
        /\ \A inside \in BOOLEAN : documentClickListener(s, inside).href = None
        /\ \A key \in Keys : keydownListener(s, key).href = None
        /\ \A i \in Boxes : checkboxListener(Flipped(s, i)).href = None

\* C23: no step of the text search (input, submit, clear-search, timer,
\* response) adds a history entry, loads a page or leaves the path; on the
\* page as loaded and at every address the text search writes, a full
\* navigation comes from the quick filter buttons, reset, apply and clear
\* and from no other listener.
C23_TextPathOnlyReplaces ==
    [][/\ historyLen' = historyLen
       /\ navCount' = navCount
       /\ visited' = visited
       /\ LocationPathname(location') = LocationPathname(location)
       /\ events = << >> => OnlyClicksNavigate(location)
       /\ location' # location => OnlyClicksNavigate(location')]_vars

\* After an input whose timers have run and a submit, the address is another
\* one than the page was loaded with, in the same history entry.
C23_Witness ==
    /\ events = <<"input", "submit">>
    /\ timers = << >>
    /\ Len(reqs) = 2 * NumEngines
    /\ location # visited[1]
    /\ historyLen = 1
    /\ navCount = 0

\* The names of the entries of the query of an address.
ParamNames(url) ==
    LET params == ParseQuery(QueryString(url))
    IN  {params[i][1] : i \in 1..Len(params)}

\* C25: no step of the text search changes the set of the tags of the
\* address; an address it writes has tags and q entries only.
C25_DispatchKeepsTags ==
    [][location' # location =>
           /\ TagSet(location') = TagSet(location)
           /\ ParamNames(location') \subseteq {"tags", "q"}]_vars

\* On the page loaded with the tags v, d, v, q=s and page=2 a search for sp
\* has been dispatched: the address has the tags v and d, q=sp and no page.
C25_Witness ==
    /\ TagsOf(visited[1]) = << <<"v">>, <<"d">>, <<"v">> >>
    /\ reqs # << >>
    /\ TagsOf(location) = << <<"v">>, <<"d">> >>
    /\ QOf(location) = << <<"s", "p">> >>
    /\ ParamNames(location) = {"tags", "q"}

\* The q an address has when the text field holds txt.
QFor(txt) == IF Trim(txt) = << >> THEN << >> ELSE <<Trim(txt)>>

\* The address a click on a quick filter button, on reset, on apply or on
\* clear navigates to from address loc has the q of the text txt.
TargetsCarry(loc, txt) ==
    LET s == PageAt(loc)
    IN  /\ \A value \in QuickTags :
               QOf(DispatchFilterClick(NumEngines, s, value).href) = QFor(txt)
        /\ QOf(DispatchReset(NumEngines, s).href) = QFor(txt)
        /\ QOf(applyListener(s).href) = QFor(txt)
        /\ QOf(clearListener(s).href) = QFor(txt)

\* C26: with a search URL, while no timer of the debounce is pending, the q
\* of the address is the trimmed text of the field (none when that is
\* empty), and so is the q of the address a click on a quick filter button,
\* on reset, on apply or on clear navigates to.  Both are looked at on the
\* page as loaded and after every step that changes the address, the text
\* or the timers.
C26_AddressQIsText ==
    [][/\ (searchUrl # "" /\ events = << >>) =>
              /\ QOf(location) = QFor(text)
              /\ TargetsCarry(location, text)
       /\ ( /\ searchUrl # ""
            /\ timers' = << >>
            /\ location' # location \/ text' # text \/ timers' # timers )
          => /\ QOf(location') = QFor(text')
             /\ TargetsCarry(location', text')]_vars

\* Two inputs have been made on the page loaded without q, the second
\* leaving "s " in the field, and the timers have run: the q is s.
C26_Witness ==
    /\ searchUrl # ""
    /\ events = <<"input", "input">>
    /\ timers = << >>
    /\ QOf(visited[1]) = << >>
    /\ text = <<"s", " ">>
    /\ QOf(location) = << <<"s">> >>

\* C27: when every fetch of the row has settled, the list is empty or shows
\* the items of the URL for the trimmed value of the name field, and it is
\* empty when that value has fewer than 2 characters.
C27_ListIsForLatestValue ==
    (\A k \in 1..Len(row.calls) : row.calls[k].status = "done") =>
        /\ Len(Trim(row.value)) < 2 => row.list = << >>
        /\ row.list # << >> => row.list = Items(SuggestUrl(Trim(row.value)))

====
